---- MODULE Spec2Model ----
(***************************************************************************)
(* Model of munkilib/authrestart.py: the FileVault authorized-restart      *)
(* decision and execution flow.                                            *)
(*                                                                         *)
(* Python values are tagged token sequences so that every value the code   *)
(* can hold (True, False, None, a string) lives in one comparable domain:  *)
(*   <<"bool","True">>, <<"bool","False">>, <<"none">>, <<"str", t1, ...>> *)
(* A string is the sequence of its tokens; `x in s` is contiguous          *)
(* sub-sequence search, str.strip() removes leading/trailing whitespace    *)
(* tokens, and printf-style formatting is concatenation.                   *)
(***************************************************************************)
EXTENDS Integers, Sequences, FiniteSets, TLC

VARIABLES
    osVersion,   \* osutils.getOsVersion(as_tuple=True)
    prefs,       \* prefs.pref(name): PerformAuthRestarts, RecoveryKeyFile
    keyDoc,      \* what FoundationPlist.readPlist finds at RecoveryKeyFile
    answers,     \* what the fdesetup queries may answer: [fv, sup], each the set
                 \* of check_output outcomes the environment can produce
    entry,       \* the function of this module the caller invoked
    stack,       \* call stack, innermost frame first: [fn, pc]
    ret,         \* value returned by the frame that returned last
    status,      \* "idle" | "running" | "returned" | "raised"
    fault,       \* name of the exception that propagated out, or "none"
    log,         \* display.display_* calls so far: [level, text]
    procs,       \* subprocess invocations so far: [argv, stdin, state, exit, out],
                 \* state "spawn_failed" | "running" | "exited"
    keyReads,    \* number of FoundationPlist.readPlist calls
    trace,       \* functions of this module entered, in call order
    returns,     \* [fn, val] of every frame that returned, in order
    recovery_key,\* local of perform_auth_restart
    priorGate,   \* result of the last completed can_attempt_auth_restart ("unknown" if none)
    calls        \* number of calls the caller has made

vars == <<osVersion, prefs, keyDoc, answers, entry, stack, ret, status, fault, log, procs,
          keyReads, trace, returns, recovery_key, priorGate, calls>>

envVars == <<osVersion, prefs, keyDoc, answers>>

(***************************************************************************)
(* Bounds                                                                  *)
(***************************************************************************)
\* number of calls of this module's functions a caller makes in one session
MaxCalls == 2

(***************************************************************************)
(* Python values                                                           *)
(***************************************************************************)
PyTrue == <<"bool", "True">>
PyFalse == <<"bool", "False">>
PyNone == <<"none">>

PyStr(tokens) == <<"str">> \o tokens

PyBool(b) == IF b THEN PyTrue ELSE PyFalse

StrOf(v) == Tail(v)

\* Python truth value testing: False, None and '' are false
Truthy(v) ==
    \/ v = PyTrue
    \/ v[1] = "str" /\ Len(v) > 1

\* `needle in hay` for strings: contiguous sub-sequence
InStr(needle, hay) ==
    \E i \in 0..(Len(hay) - Len(needle)) :
        SubSeq(hay, i + 1, i + Len(needle)) = needle

Whitespace == {" ", "\n", "\t"}

RECURSIVE LStrip(_)
LStrip(s) ==
    IF s # <<>> /\ Head(s) \in Whitespace THEN LStrip(Tail(s)) ELSE s

RECURSIVE RStrip(_)
RStrip(s) ==
    IF s # <<>> /\ s[Len(s)] \in Whitespace
    THEN RStrip(SubSeq(s, 1, Len(s) - 1))
    ELSE s

\* str.strip()
Strip(s) == RStrip(LStrip(s))

\* Python tuple ordering: lexicographic, a proper prefix is smaller
RECURSIVE TupleLess(_, _)
TupleLess(a, b) ==
    IF b = <<>> THEN FALSE
    ELSE IF a = <<>> THEN TRUE
    ELSE IF Head(a) # Head(b) THEN Head(a) < Head(b)
    ELSE TupleLess(Tail(a), Tail(b))

TupleGE(a, b) == ~TupleLess(a, b)

(***************************************************************************)
(* Environment: sampled inputs                                             *)
(***************************************************************************)
OSVersions == {<<10, 7, 5>>, <<10, 8>>, <<10, 11, 0>>, <<10, 12>>, <<10, 13, 0>>}

KeyFilePath == "/private/var/root/recoverykey.plist"

PerformAuthRestartsValues == {PyTrue, PyFalse, PyNone}

RecoveryKeyFileValues == {PyNone, PyStr(<<KeyFilePath>>)}

\* readPlist outcome: the document cannot be read/parsed
\* (NSPropertyListSerializationException), it parses but has no RecoveryKey
\* (KeyError), or it has a RecoveryKey, which the credential file format
\* makes a string
KeyDocs ==
    { [kind |-> "unreadable", key |-> <<>>],
      [kind |-> "nokey", key |-> <<>>],
      [kind |-> "haskey", key |-> <<" ">>],
      [kind |-> "haskey", key |-> <<" ", "ABCD", "-", "1234", "\n">>],
      [kind |-> "haskey", key |-> <<"WXYZ">>] }

\* captured stdout+stderr of the fdesetup queries
QueryOutputs ==
    { <<>>, <<"true", "\n">>, <<"false", "\n">>, <<"Error", ":", "not", "true">>,
      <<"fdesetup", ":", "failed">> }

\* subprocess.check_output: the process cannot be spawned (OSError), or it
\* runs and exits with a status and output
CheckOutputOutcomes ==
    { [spawned |-> FALSE, exit |-> 0, out |-> <<>>] }
    \cup [spawned : {TRUE}, exit : {0, 1}, out : QueryOutputs]

RestartMessage == <<"System", "is", "being", "restarted">>

\* captured stderr of fdesetup authrestart
HelperStderrs ==
    { <<>>, RestartMessage \o <<".">>, <<"System", "is", "being">>,
      <<"Error", ":", "bad", "key">> }

HelperOutcomes == [exit : {0, 1}, err : HelperStderrs]

(***************************************************************************)
(* Commands                                                                *)
(***************************************************************************)
active_cmd == <<"/usr/bin/fdesetup", "isactive">>
support_cmd == <<"/usr/bin/fdesetup", "supportsauthrestart">>
authrestart_cmd == <<"/usr/bin/fdesetup", "authrestart", "-inputplist">>
shutdown_cmd == <<"/sbin/shutdown", "-r", "now">>

\* FoundationPlist.writePlistToString({'Password': recovery_key})
writePlistToString(key) == <<"<dict>", "<key>", "Password", "</key>", "<string>">>
                           \o key \o <<"</string>", "</dict>">>

Proc(argv, stdin, state, exit, out) ==
    [argv |-> argv, stdin |-> stdin, state |-> state, exit |-> exit, out |-> out]

Msg(level, text) == [level |-> level, text |-> text]

Frame(fn, pc) == [fn |-> fn, pc |-> pc]

Functions ==
    { "filevault_is_active", "supports_auth_restart", "get_auth_restart_key",
      "can_attempt_auth_restart", "perform_auth_restart",
      "do_authorized_or_normal_restart" }

(***************************************************************************)
(* Control                                                                 *)
(***************************************************************************)
At(fn, pc) == stack # <<>> /\ Head(stack) = Frame(fn, pc)

\* the running frame returns v to its caller
Return(v) ==
    /\ ret' = v
    /\ stack' = Tail(stack)
    /\ returns' = Append(returns, [fn |-> Head(stack).fn, val |-> v])
    /\ status' = IF Tail(stack) = <<>> THEN "returned" ELSE "running"
    /\ fault' = fault
    /\ priorGate' = IF Tail(stack) = <<>> /\ Head(stack).fn = "can_attempt_auth_restart"
                    THEN (IF v = PyTrue THEN "true" ELSE "false")
                    ELSE priorGate
    /\ trace' = trace

\* an exception nothing in this module catches unwinds every frame
Raise(exc) ==
    /\ fault' = exc
    /\ stack' = <<>>
    /\ status' = "raised"
    /\ UNCHANGED <<ret, returns, priorGate, trace>>

\* the running frame moves to pc and calls callee
CallFrom(pc, callee) ==
    /\ stack' = <<Frame(callee, "start"), Frame(Head(stack).fn, pc)>> \o Tail(stack)
    /\ trace' = Append(trace, callee)
    /\ UNCHANGED <<ret, returns, status, fault, priorGate>>

\* the running frame moves to pc
Goto(pc) ==
    /\ stack' = <<Frame(Head(stack).fn, pc)>> \o Tail(stack)
    /\ UNCHANGED <<ret, returns, status, fault, priorGate, trace>>

\* an environment whose fdesetup queries may answer anything, each time anew
AnyAnswers == [fv |-> CheckOutputOutcomes, sup |-> CheckOutputOutcomes]

InitCall ==
    /\ osVersion \in OSVersions
    /\ prefs \in [PerformAuthRestarts : PerformAuthRestartsValues,
                  RecoveryKeyFile : RecoveryKeyFileValues]
    /\ keyDoc \in KeyDocs
    /\ entry = "none"
    /\ stack = <<>>
    /\ ret = PyNone
    /\ status = "idle"
    /\ fault = "none"
    /\ log = <<>>
    /\ procs = <<>>
    /\ keyReads = 0
    /\ trace = <<>>
    /\ returns = <<>>
    /\ recovery_key = PyNone
    /\ priorGate = "unknown"
    /\ calls = 0

Init ==
    /\ InitCall
    /\ answers = AnyAnswers

\* the caller invokes one of the module's functions
Call(fn) ==
    /\ stack = <<>>
    /\ calls < MaxCalls
    /\ calls' = calls + 1
    /\ entry' = fn
    /\ stack' = <<Frame(fn, "start")>>
    /\ status' = "running"
    /\ ret' = PyNone
    /\ fault' = "none"
    /\ log' = <<>>
    /\ procs' = <<>>
    /\ keyReads' = 0
    /\ trace' = <<fn>>
    /\ returns' = <<>>
    /\ recovery_key' = PyNone
    /\ UNCHANGED <<envVars, priorGate>>

(***************************************************************************)
(* filevault_is_active                                                     *)
(***************************************************************************)
\* variant: the except-branch never recognises the "false" answer
filevault_warning_verbatim(output) ==
    IF output = <<>>
    THEN Msg("warning", <<"Encountered problem determining FileVault status...">>)
    ELSE Msg("warning", output)

\* the except-branch of filevault_is_active: the warning chosen by exc.output
filevault_warning(output) ==
    IF output # <<>> /\ InStr(<<"false">>, output)
    THEN Msg("warning", <<"FileVault appears to be disabled...">>)
    ELSE IF output = <<>>
    THEN Msg("warning", <<"Encountered problem determining FileVault status...">>)
    ELSE Msg("warning", output)

\* value returned when check_output returned normally
filevault_result(is_active) == PyBool(InStr(<<"true">>, is_active))

filevault_is_active ==
    /\ At("filevault_is_active", "start")
    /\ \E o \in answers.fv :
        LET dbg == Msg("debug1", <<"Checking if FileVault is enabled...">>) IN
        IF ~o.spawned
        THEN /\ log' = Append(log, dbg)
             /\ procs' = Append(procs, Proc(active_cmd, <<>>, "spawn_failed", -1, <<>>))
             /\ Raise("OSError")
        ELSE /\ procs' = Append(procs, Proc(active_cmd, <<>>, "exited", o.exit, o.out))
             /\ IF o.exit # 0
                THEN /\ log' = log \o <<dbg, filevault_warning(o.out)>>
                     /\ Return(PyFalse)
                ELSE /\ log' = Append(log, dbg)
                     /\ Return(filevault_result(o.out))
    /\ UNCHANGED <<envVars, entry, keyReads, recovery_key, calls>>

(***************************************************************************)
(* supports_auth_restart                                                   *)
(***************************************************************************)
\* variant: the except-branch always shows the generic diagnostic
supports_warning_generic(output) ==
    Msg("warning", <<"Encountered problem determining AuthRestart status...">>)

\* the except-branch of supports_auth_restart
supports_warning(output) ==
    IF output # <<>>
    THEN Msg("warning", output)
    ELSE Msg("warning", <<"Encountered problem determining AuthRestart status...">>)

supports_result(is_supported) == PyBool(InStr(<<"true">>, is_supported))

supports_auth_restart ==
    /\ At("supports_auth_restart", "start")
    /\ \E o \in answers.sup :
        LET dbg == Msg("debug1", <<"Checking if FileVault can perform an AuthRestart...">>) IN
        IF ~o.spawned
        THEN /\ log' = Append(log, dbg)
             /\ procs' = Append(procs, Proc(support_cmd, <<>>, "spawn_failed", -1, <<>>))
             /\ Raise("OSError")
        ELSE /\ procs' = Append(procs, Proc(support_cmd, <<>>, "exited", o.exit, o.out))
             /\ IF o.exit # 0
                THEN /\ log' = log \o <<dbg, supports_warning(o.out)>>
                     /\ Return(PyFalse)
                ELSE IF supports_result(o.out) = PyTrue
                THEN /\ log' = log \o <<dbg, Msg("debug1", <<"FileVault supports AuthRestart...">>)>>
                     /\ Return(PyTrue)
                ELSE /\ log' = log \o <<dbg, Msg("warning", <<"FileVault AuthRestart is not supported...">>)>>
                     /\ Return(PyFalse)
    /\ UNCHANGED <<envVars, entry, keyReads, recovery_key, calls>>

(***************************************************************************)
(* get_auth_restart_key                                                    *)
(***************************************************************************)
\* variant: the debug message shows what was read instead of where from
key_messages_leaking(recoverykeyplist, doc) ==
    <<Msg("debug1", <<"RecoveryKeyFile preference is set to ">> \o doc.key \o <<"...">>)>>

\* the messages get_auth_restart_key emits for a configured path
key_messages(recoverykeyplist, doc) ==
    <<Msg("debug1", <<"RecoveryKeyFile preference is set to ">> \o recoverykeyplist \o <<"...">>)>>
    \o (IF doc.kind = "unreadable"
        THEN <<Msg("error", <<"We had trouble getting info from ">> \o recoverykeyplist \o <<"...">>)>>
        ELSE IF doc.kind = "nokey"
        THEN <<Msg("error", <<"Problem with key: RecoveryKey in ">> \o recoverykeyplist \o <<"...">>)>>
        ELSE <<>>)

\* variant: the value is returned as stored
key_result_untrimmed(doc) ==
    IF doc.kind = "haskey" THEN PyStr(doc.key) ELSE PyStr(<<>>)

\* keyplist['RecoveryKey'].strip(), or '' from the two except-branches
key_result(doc) ==
    IF doc.kind = "haskey" THEN PyStr(Strip(doc.key)) ELSE PyStr(<<>>)

get_auth_restart_key ==
    /\ At("get_auth_restart_key", "start")
    /\ LET recoverykeyplist == prefs.RecoveryKeyFile IN
       IF ~Truthy(recoverykeyplist)
       THEN /\ log' = Append(log, Msg("warning", <<"RecoveryKeyFile preference is not set">>))
            /\ keyReads' = keyReads
            /\ Return(PyStr(<<>>))
       ELSE /\ log' = log \o key_messages(StrOf(recoverykeyplist), keyDoc)
            /\ keyReads' = keyReads + 1
            /\ Return(key_result(keyDoc))
    /\ UNCHANGED <<envVars, entry, procs, recovery_key, calls>>

(***************************************************************************)
(* can_attempt_auth_restart                                                *)
(***************************************************************************)
\* OS version floors the code compares os_version_tuple against
AuthRestartFloor == <<10, 8>>
RestartMessageFloor == <<10, 12>>

\* value of `a and <rest>` once a has been evaluated and is false
\* (Python's `and` yields the first false operand itself)
can_attempt_start ==
    /\ At("can_attempt_auth_restart", "start")
    /\ IF ~TupleGE(osVersion, AuthRestartFloor)
       THEN Return(PyFalse)
       ELSE IF ~Truthy(prefs.PerformAuthRestarts)
       THEN Return(prefs.PerformAuthRestarts)
       ELSE CallFrom("after_filevault", "filevault_is_active")
    /\ UNCHANGED <<envVars, entry, log, procs, keyReads, recovery_key, calls>>

\* variant: the gate goes on to the capability probe whatever FileVault said
can_attempt_after_filevault_no_short_circuit ==
    /\ At("can_attempt_auth_restart", "after_filevault")
    /\ CallFrom("after_supports", "supports_auth_restart")
    /\ UNCHANGED <<envVars, entry, log, procs, keyReads, recovery_key, calls>>

can_attempt_after_filevault ==
    /\ At("can_attempt_auth_restart", "after_filevault")
    /\ IF ~Truthy(ret)
       THEN Return(ret)
       ELSE CallFrom("after_supports", "supports_auth_restart")
    /\ UNCHANGED <<envVars, entry, log, procs, keyReads, recovery_key, calls>>

can_attempt_after_supports ==
    /\ At("can_attempt_auth_restart", "after_supports")
    /\ IF ~Truthy(ret)
       THEN Return(ret)
       ELSE CallFrom("after_key", "get_auth_restart_key")
    /\ UNCHANGED <<envVars, entry, log, procs, keyReads, recovery_key, calls>>

can_attempt_after_key ==
    /\ At("can_attempt_auth_restart", "after_key")
    /\ Return(PyBool(ret # PyStr(<<>>)))
    /\ UNCHANGED <<envVars, entry, log, procs, keyReads, recovery_key, calls>>

(***************************************************************************)
(* perform_auth_restart                                                    *)
(***************************************************************************)
\* variant: any stderr output is a failure, whatever the OS version
helper_succeeded_stderr_first(os_version_tuple, err) ==
    IF err # <<>>
    THEN FALSE
    ELSE TRUE

\* lines 140-146: the verdict on the helper's stderr
helper_succeeded(os_version_tuple, err) ==
    IF TupleGE(os_version_tuple, RestartMessageFloor) /\ InStr(RestartMessage, err)
    THEN TRUE
    ELSE IF err # <<>>
    THEN FALSE
    ELSE TRUE

\* the message logged with the verdict
helper_messages(os_version_tuple, err) ==
    IF TupleGE(os_version_tuple, RestartMessageFloor) /\ InStr(RestartMessage, err)
    THEN <<>>
    ELSE IF err # <<>>
    THEN <<Msg("error", err)>>
    ELSE <<>>

perform_start ==
    /\ At("perform_auth_restart", "start")
    /\ log' = Append(log, Msg("debug1",
                <<"Checking if performing an Auth Restart is fully supported...">>))
    /\ CallFrom("after_supports", "supports_auth_restart")
    /\ UNCHANGED <<envVars, entry, procs, keyReads, recovery_key, calls>>

\* variant: the executor trusts the caller and skips the capability verdict
perform_after_supports_trusting ==
    /\ At("perform_auth_restart", "after_supports")
    /\ log' = Append(log, Msg("debug1", <<"Machine supports Authorized Restarts...">>))
    /\ CallFrom("after_key", "get_auth_restart_key")
    /\ UNCHANGED <<envVars, entry, procs, keyReads, recovery_key, calls>>

perform_after_supports ==
    /\ At("perform_auth_restart", "after_supports")
    /\ IF ~Truthy(ret)
       THEN /\ log' = Append(log, Msg("warning",
                        <<"Machine doesn't support Authorized Restarts...">>))
            /\ Return(PyFalse)
       ELSE /\ log' = Append(log, Msg("debug1",
                        <<"Machine supports Authorized Restarts...">>))
            /\ CallFrom("after_key", "get_auth_restart_key")
    /\ UNCHANGED <<envVars, entry, procs, keyReads, recovery_key, calls>>

\* recovery_key = get_auth_restart_key() ... subprocess.Popen(...)
perform_after_key ==
    /\ At("perform_auth_restart", "after_key")
    /\ recovery_key' = ret
    /\ IF ~Truthy(ret)
       THEN /\ Return(PyFalse)
            /\ UNCHANGED <<log, procs>>
       ELSE /\ log' = Append(log, Msg("info", <<"Attempting an Authorized Restart now...">>))
            /\ \E spawned \in BOOLEAN :
                IF spawned
                THEN /\ procs' = Append(procs, Proc(authrestart_cmd, <<>>, "running", -1, <<>>))
                     /\ Goto("communicate")
                ELSE /\ procs' = Append(procs, Proc(authrestart_cmd, <<>>, "spawn_failed", -1, <<>>))
                     /\ Raise("OSError")
    /\ UNCHANGED <<envVars, entry, keyReads, calls>>

\* cmd.communicate(input=inputplist) and the verdict
perform_communicate ==
    /\ At("perform_auth_restart", "communicate")
    /\ \E h \in HelperOutcomes :
        /\ procs' = [procs EXCEPT ![Len(procs)] =
                        Proc(authrestart_cmd, writePlistToString(StrOf(recovery_key)),
                             "exited", h.exit, h.err)]
        /\ log' = log \o helper_messages(osVersion, h.err)
        /\ Return(PyBool(helper_succeeded(osVersion, h.err)))
    /\ UNCHANGED <<envVars, entry, keyReads, recovery_key, calls>>

(***************************************************************************)
(* do_authorized_or_normal_restart                                         *)
(***************************************************************************)
\* variant: the RecoveryKeyFile preference is not looked at
restart_configured_no_keyfile ==
    /\ Truthy(prefs.PerformAuthRestarts)
    /\ TupleGE(osVersion, AuthRestartFloor)

\* variant: the OS version is not looked at
restart_configured_any_os ==
    /\ Truthy(prefs.PerformAuthRestarts)
    /\ Truthy(prefs.RecoveryKeyFile)

\* variant: the OS version is compared with the wrong floor
restart_configured_newer_os ==
    /\ Truthy(prefs.PerformAuthRestarts)
    /\ Truthy(prefs.RecoveryKeyFile)
    /\ TupleGE(osVersion, RestartMessageFloor)

\* lines 153-155: the test made before FileVault is queried
restart_configured ==
    /\ Truthy(prefs.PerformAuthRestarts)
    /\ Truthy(prefs.RecoveryKeyFile)
    /\ TupleGE(osVersion, AuthRestartFloor)

\* subprocess.call: the process cannot be spawned (OSError), or it runs
\* and its return code is discarded
CallOutcomes == [spawned : {TRUE}, exit : {0, 1}] \cup {[spawned |-> FALSE, exit |-> 0]}

restart_start ==
    /\ At("do_authorized_or_normal_restart", "start")
    /\ log' = Append(log, Msg("info", <<"Restarting now.">>))
    /\ IF restart_configured
       THEN CallFrom("after_filevault", "filevault_is_active")
       ELSE Goto("fallback")
    /\ UNCHANGED <<envVars, entry, procs, keyReads, recovery_key, calls>>

\* variant: with FileVault inactive the flow returns instead of falling back
restart_after_filevault_gives_up ==
    /\ At("do_authorized_or_normal_restart", "after_filevault")
    /\ IF Truthy(ret)
       THEN /\ log' = Append(log, Msg("debug1", <<"Configured to perform AuthRestarts...">>))
            /\ CallFrom("after_perform", "perform_auth_restart")
       ELSE /\ log' = log
            /\ Return(PyNone)
    /\ UNCHANGED <<envVars, entry, procs, keyReads, recovery_key, calls>>

\* variant: the authorized restart is never attempted
restart_after_filevault_skips_attempt ==
    /\ At("do_authorized_or_normal_restart", "after_filevault")
    /\ log' = log
    /\ Goto("fallback")
    /\ UNCHANGED <<envVars, entry, procs, keyReads, recovery_key, calls>>

\* variant: the authorized restart is attempted whatever FileVault said
restart_after_filevault_ignores_status ==
    /\ At("do_authorized_or_normal_restart", "after_filevault")
    /\ log' = Append(log, Msg("debug1", <<"Configured to perform AuthRestarts...">>))
    /\ CallFrom("after_perform", "perform_auth_restart")
    /\ UNCHANGED <<envVars, entry, procs, keyReads, recovery_key, calls>>

restart_after_filevault ==
    /\ At("do_authorized_or_normal_restart", "after_filevault")
    /\ IF Truthy(ret)
       THEN /\ log' = Append(log, Msg("debug1", <<"Configured to perform AuthRestarts...">>))
            /\ CallFrom("after_perform", "perform_auth_restart")
       ELSE /\ log' = log
            /\ Goto("fallback")
    /\ UNCHANGED <<envVars, entry, procs, keyReads, recovery_key, calls>>

\* variant: the flow does not return after a successful authorized restart
restart_after_perform_no_return ==
    /\ At("do_authorized_or_normal_restart", "after_perform")
    /\ log' = IF ~Truthy(ret)
              THEN Append(log, Msg("warning",
                        <<"Authorized Restart failed. Performing normal restart...">>))
              ELSE log
    /\ Goto("fallback")
    /\ UNCHANGED <<envVars, entry, procs, keyReads, recovery_key, calls>>

\* variant: the two outcomes of the executor are swapped
restart_after_perform_inverted ==
    /\ At("do_authorized_or_normal_restart", "after_perform")
    /\ IF Truthy(ret)
       THEN /\ log' = Append(log, Msg("warning",
                        <<"Authorized Restart failed. Performing normal restart...">>))
            /\ Goto("fallback")
       ELSE /\ log' = log
            /\ Return(PyNone)
    /\ UNCHANGED <<envVars, entry, procs, keyReads, recovery_key, calls>>

restart_after_perform ==
    /\ At("do_authorized_or_normal_restart", "after_perform")
    /\ IF ~Truthy(ret)
       THEN /\ log' = Append(log, Msg("warning",
                        <<"Authorized Restart failed. Performing normal restart...">>))
            /\ Goto("fallback")
       ELSE /\ log' = log
            /\ Return(PyNone)
    /\ UNCHANGED <<envVars, entry, procs, keyReads, recovery_key, calls>>

\* fall back to normal restart
restart_fallback ==
    /\ At("do_authorized_or_normal_restart", "fallback")
    /\ log' = Append(log, Msg("debug1", <<"Performing a regular restart...">>))
    /\ \E o \in CallOutcomes :
        IF o.spawned
        THEN /\ procs' = Append(procs, Proc(shutdown_cmd, <<>>, "exited", o.exit, <<>>))
             /\ Return(PyNone)
        ELSE /\ procs' = Append(procs, Proc(shutdown_cmd, <<>>, "spawn_failed", -1, <<>>))
             /\ Raise("OSError")
    /\ UNCHANGED <<envVars, entry, keyReads, recovery_key, calls>>

(***************************************************************************)
(* Specification                                                           *)
(***************************************************************************)
Next ==
    \/ \E fn \in Functions : Call(fn)
    \/ filevault_is_active
    \/ supports_auth_restart
    \/ get_auth_restart_key
    \/ can_attempt_start
    \/ can_attempt_after_filevault
    \/ can_attempt_after_supports
    \/ can_attempt_after_key
    \/ perform_start
    \/ perform_after_supports
    \/ perform_after_key
    \/ perform_communicate
    \/ restart_start
    \/ restart_after_filevault
    \/ restart_after_perform
    \/ restart_fallback

Spec == Init /\ [][Next]_vars

TypeOK ==
    /\ status \in {"idle", "running", "returned", "raised"}
    /\ fault \in {"none", "OSError"}
    /\ (stack = <<>>) = (status # "running")
    /\ calls \in 0..MaxCalls

(***************************************************************************)
(* Observations used by the properties                                     *)
(***************************************************************************)
\* positions in procs of the invocations of cmd (spawned or not)
Invoked(cmd) == {i \in DOMAIN procs : procs[i].argv = cmd}

\* positions in procs of the invocations of cmd that produced a process
Spawned(cmd) == {i \in Invoked(cmd) : procs[i].state # "spawn_failed"}

\* values fn has returned during the current call
RetVals(fn) == {returns[i].val : i \in {j \in DOMAIN returns : returns[j].fn = fn}}

\* warnings and errors shown to the operator during the current call
Diagnostics == SelectSeq(log, LAMBDA m : m.level \in {"warning", "error"})

InFlow == entry = "do_authorized_or_normal_restart"

Finished == status \in {"returned", "raised"}

\* the verdict lines 140-146 are claimed to give for stderr err on version os
StderrMeansRestart(os, err) ==
    \/ TupleGE(os, <<10, 12>>) /\ InStr(RestartMessage, err)
    \/ err = <<>>

(***************************************************************************)
(* C1                                                                      *)
(***************************************************************************)
\* C1 (as stated): one call of do_authorized_or_normal_restart never invokes
\* both fdesetup authrestart and shutdown -r now.
C1_AtMostOneMechanism ==
    InFlow => ~(Invoked(authrestart_cmd) # {} /\ Invoked(shutdown_cmd) # {})

\* C1 (amended): one call invokes each mechanism at most once, and invokes
\* both only when the helper ran to its exit and its stderr was classified as
\* a failure; the plain restart then comes after the helper.
C1_BothOnlyAfterFailedHelper ==
    InFlow =>
        /\ Cardinality(Invoked(authrestart_cmd)) <= 1
        /\ Cardinality(Invoked(shutdown_cmd)) <= 1
        /\ \A i \in Invoked(authrestart_cmd) : \A j \in Invoked(shutdown_cmd) :
            /\ i < j
            /\ procs[i].state = "exited"
            /\ ~StderrMeansRestart(osVersion, procs[i].out)
            /\ PyFalse \in RetVals("perform_auth_restart")

C1_Witness ==
    /\ InFlow
    /\ status = "returned"
    /\ Spawned(authrestart_cmd) # {}
    /\ Spawned(shutdown_cmd) # {}

(***************************************************************************)
(* C2                                                                      *)
(***************************************************************************)
\* C2: when a call of do_authorized_or_normal_restart is over, fdesetup
\* authrestart or shutdown -r now has been invoked.
C2_AlwaysRestarts ==
    (InFlow /\ Finished) =>
        Invoked(authrestart_cmd) \cup Invoked(shutdown_cmd) # {}

(***************************************************************************)
(* C3                                                                      *)
(***************************************************************************)
\* the end-to-end scenario: authorized restarts configured, OS >= 10.8,
\* FileVault active, capability probe true, credential non-empty
C3_Scenario ==
    /\ InFlow
    /\ prefs.PerformAuthRestarts = PyTrue
    /\ prefs.RecoveryKeyFile # PyNone
    /\ TupleGE(osVersion, <<10, 8>>)
    /\ RetVals("filevault_is_active") = {PyTrue}
    /\ RetVals("supports_auth_restart") = {PyTrue}
    /\ RetVals("get_auth_restart_key") # {}
    /\ PyStr(<<>>) \notin RetVals("get_auth_restart_key")

\* C3: in the scenario, once the call is over: if perform_auth_restart
\* reported success there is exactly one invocation of the helper and none of
\* the plain restart; if it reported failure there is exactly one invocation
\* of the helper followed by exactly one of the plain restart.
C3_EndToEnd ==
    (C3_Scenario /\ Finished) =>
        /\ PyTrue \in RetVals("perform_auth_restart") =>
            /\ Cardinality(Invoked(authrestart_cmd)) = 1
            /\ Invoked(shutdown_cmd) = {}
            /\ Len(procs) = 3
        /\ PyFalse \in RetVals("perform_auth_restart") =>
            /\ Cardinality(Invoked(authrestart_cmd)) = 1
            /\ Cardinality(Invoked(shutdown_cmd)) = 1
            /\ Len(procs) = 4
            /\ procs[3].argv = authrestart_cmd
            /\ procs[4].argv = shutdown_cmd

C3_Witness ==
    /\ C3_Scenario
    /\ status = "returned"
    /\ PyFalse \in RetVals("perform_auth_restart")
    /\ Invoked(shutdown_cmd) # {}

(***************************************************************************)
(* C4                                                                      *)
(***************************************************************************)
InGate == entry = "can_attempt_auth_restart"

\* the five conditions of the gate, as observed during the call
GateOsOk == TupleGE(osVersion, <<10, 8>>)
GatePrefOk == prefs.PerformAuthRestarts = PyTrue
GateFileVaultOk == RetVals("filevault_is_active") = {PyTrue}
GateSupportsOk == RetVals("supports_auth_restart") = {PyTrue}
GateKeyOk ==
    /\ RetVals("get_auth_restart_key") # {}
    /\ PyStr(<<>>) \notin RetVals("get_auth_restart_key")

\* the calls a short-circuit evaluation in the stated order makes
GateExpectedTrace ==
    <<"can_attempt_auth_restart">>
    \o (IF GateOsOk /\ GatePrefOk THEN <<"filevault_is_active">> ELSE <<>>)
    \o (IF GateOsOk /\ GatePrefOk /\ GateFileVaultOk
        THEN <<"supports_auth_restart">> ELSE <<>>)
    \o (IF GateOsOk /\ GatePrefOk /\ GateFileVaultOk /\ GateSupportsOk
        THEN <<"get_auth_restart_key">> ELSE <<>>)

\* C4: can_attempt_auth_restart returns True iff all five conditions hold;
\* it tests them in the order OS version, PerformAuthRestarts, FileVault,
\* capability, credential, and after the first false one it calls no further
\* probe: no later process is invoked, the credential file is not read, and
\* at most one warning or error is shown.
C4_GateShortCircuit ==
    InGate =>
        /\ status = "returned" =>
            /\ (ret = PyTrue) <=>
                (GateOsOk /\ GatePrefOk /\ GateFileVaultOk /\ GateSupportsOk /\ GateKeyOk)
            /\ ~Truthy(ret) \/ ret = PyTrue
            /\ trace = GateExpectedTrace
            /\ Len(Diagnostics) <= 1
            /\ ret = PyTrue => Diagnostics = <<>>
        /\ \E n \in 1..Len(GateExpectedTrace) : trace = SubSeq(GateExpectedTrace, 1, n)
        /\ Invoked(support_cmd) # {} => GateFileVaultOk
        /\ keyReads > 0 => GateSupportsOk
        /\ Invoked(active_cmd) # {} => GateOsOk /\ GatePrefOk
        /\ Len(procs) <= 2
        /\ Invoked(authrestart_cmd) \cup Invoked(shutdown_cmd) = {}

\* the gate stopped at FileVault: one process, one diagnostic, no key read
C4_Witness ==
    /\ InGate
    /\ status = "returned"
    /\ ret = PyFalse
    /\ GateOsOk /\ GatePrefOk /\ ~GateFileVaultOk
    /\ Len(procs) = 1
    /\ Len(Diagnostics) = 1
    /\ keyReads = 0

(***************************************************************************)
(* C5                                                                      *)
(***************************************************************************)
ErrorsLogged == SelectSeq(log, LAMBDA m : m.level = "error")

\* C5: once the helper has run, perform_auth_restart's result follows the
\* ordered rule: OS >= 10.12 and "System is being restarted" in stderr is
\* success; otherwise non-empty stderr is failure, logged as an error;
\* otherwise success.  "System is being restarted." is success on 10.13.0
\* and failure on 10.11.0; empty stderr is success everywhere.
C5_HelperVerdict ==
    \A i \in Spawned(authrestart_cmd) :
        procs[i].state = "exited" =>
            LET err == procs[i].out
                verdict == IF TupleGE(osVersion, <<10, 12>>) /\ InStr(RestartMessage, err)
                           THEN PyTrue
                           ELSE IF err # <<>> THEN PyFalse ELSE PyTrue
            IN  /\ RetVals("perform_auth_restart") = {verdict}
                /\ verdict = PyFalse => ErrorsLogged = <<Msg("error", err)>>
                /\ verdict = PyTrue => ErrorsLogged = <<>>
                /\ (osVersion = <<10, 13, 0>> /\ err = RestartMessage \o <<".">>)
                    => verdict = PyTrue
                /\ (osVersion = <<10, 11, 0>> /\ err = RestartMessage \o <<".">>)
                    => verdict = PyFalse
                /\ err = <<>> => verdict = PyTrue

\* the informational message was taken as success on 10.13.0
C5_Witness ==
    /\ entry = "perform_auth_restart"
    /\ status = "returned"
    /\ osVersion = <<10, 13, 0>>
    /\ ret = PyTrue
    /\ \E i \in Spawned(authrestart_cmd) : procs[i].out = RestartMessage \o <<".">>

(***************************************************************************)
(* C6                                                                      *)
(***************************************************************************)
\* C6: in every call that runs perform_auth_restart, whatever an earlier
\* can_attempt_auth_restart returned: a false capability probe means no
\* credential read, no helper and a False result; an empty credential means
\* no helper and a False result; the helper is invoked only after a capability
\* probe of the same call said true, and its stdin is the plist of a
\* non-empty credential.
C6_Revalidates ==
    "perform_auth_restart" \in {trace[i] : i \in DOMAIN trace} =>
        /\ PyFalse \in RetVals("supports_auth_restart") =>
            /\ keyReads = 0
            /\ RetVals("get_auth_restart_key") = {}
            /\ Invoked(authrestart_cmd) = {}
            /\ Finished => RetVals("perform_auth_restart") = {PyFalse}
        /\ PyStr(<<>>) \in RetVals("get_auth_restart_key") =>
            /\ Invoked(authrestart_cmd) = {}
            /\ Finished => RetVals("perform_auth_restart") = {PyFalse}
        /\ \A i \in Invoked(authrestart_cmd) :
            /\ \E j \in Invoked(support_cmd) :
                /\ j < i
                /\ procs[j].state = "exited"
                /\ procs[j].exit = 0
                /\ InStr(<<"true">>, procs[j].out)
            /\ \E k \in RetVals("get_auth_restart_key") :
                /\ StrOf(k) # <<>>
                /\ procs[i].state = "exited" =>
                    procs[i].stdin = writePlistToString(StrOf(k))

\* the gate had said yes, the executor's own probe says no: nothing is read
\* or spawned
C6_Witness ==
    /\ priorGate = "true"
    /\ entry = "perform_auth_restart"
    /\ status = "returned"
    /\ ret = PyFalse
    /\ PyFalse \in RetVals("supports_auth_restart")
    /\ keyReads = 0
    /\ Invoked(authrestart_cmd) = {}

(***************************************************************************)
(* C7                                                                      *)
(***************************************************************************)
\* the function that runs cmd
RunBy(cmd) ==
    IF cmd = active_cmd THEN "filevault_is_active"
    ELSE IF cmd = support_cmd THEN "supports_auth_restart"
    ELSE "perform_auth_restart"

\* C7: whenever an fdesetup process cannot be spawned or exits non-zero, the
\* function that ran it returns False with a warning or error logged, and no
\* exception leaves the call.
C7_FailuresAbsorbed ==
    /\ fault = "none"
    /\ \A i \in DOMAIN procs :
        (/\ procs[i].argv \in {active_cmd, support_cmd, authrestart_cmd}
         /\ \/ procs[i].state = "spawn_failed"
            \/ procs[i].state = "exited" /\ procs[i].exit # 0)
        => /\ RetVals(RunBy(procs[i].argv)) = {PyFalse}
           /\ Diagnostics # <<>>

(***************************************************************************)
(* C8                                                                      *)
(***************************************************************************)
\* C8: when do_authorized_or_normal_restart returns, a helper that ran and
\* failed (non-zero exit) has been followed by the plain restart, and the
\* plain restart has been left out only if the helper ran and succeeded.
C8_NeverLeftUnrestarted ==
    (InFlow /\ status = "returned") =>
        /\ \A i \in Spawned(authrestart_cmd) :
            procs[i].exit # 0 => Invoked(shutdown_cmd) # {}
        /\ Invoked(shutdown_cmd) = {} =>
            \E i \in Spawned(authrestart_cmd) :
                procs[i].state = "exited" /\ procs[i].exit = 0

(***************************************************************************)
(* C9                                                                      *)
(***************************************************************************)
\* the recovery credential of this environment, '' if there is none
Credential == IF keyDoc.kind = "haskey" THEN Strip(keyDoc.key) ELSE <<>>

\* text shows (part of) the credential
Mentions(text) ==
    \E i \in DOMAIN text : \E j \in DOMAIN Credential : text[i] = Credential[j]

Trimmed(k, r) ==
    /\ \E i \in 0..Len(k) : \E j \in 0..Len(k) :
        /\ i + Len(r) + j = Len(k)
        /\ SubSeq(k, i + 1, i + Len(r)) = r
        /\ \A n \in 1..i : k[n] \in Whitespace
        /\ \A n \in (Len(k) - j + 1)..Len(k) : k[n] \in Whitespace
    /\ r # <<>> => r[1] \notin Whitespace /\ r[Len(r)] \notin Whitespace

C11_FileVaultProbe ==
    /\ \A i \in Invoked(active_cmd) :
        procs[i].state = "exited" =>
            RetVals("filevault_is_active") =
                {IF procs[i].exit = 0 /\ InStr(<<"true">>, procs[i].out)
                 THEN PyTrue ELSE PyFalse}
    /\ (entry = "filevault_is_active" /\ status = "returned") =>
        /\ Len(procs) = 1
        /\ ret = PyTrue <=> (procs[1].exit = 0 /\ InStr(<<"true">>, procs[1].out))
        /\ ret \in {PyTrue, PyFalse}
        /\ procs[1].exit = 0 => Diagnostics = <<>>
        /\ procs[1].exit # 0 =>
            Diagnostics =
                <<IF InStr(<<"false">>, procs[1].out)
                  THEN Msg("warning", <<"FileVault appears to be disabled...">>)
                  ELSE IF procs[1].out = <<>>
                  THEN Msg("warning",
                           <<"Encountered problem determining FileVault status...">>)
                  ELSE Msg("warning", procs[1].out)>>

\* the query failed saying "false": the 'disabled' warning, result False
C11_Witness ==
    /\ entry = "filevault_is_active"
    /\ status = "returned"
    /\ ret = PyFalse
    /\ procs[1].exit = 1
    /\ procs[1].out = <<"false", "\n">>
    /\ Diagnostics = <<Msg("warning", <<"FileVault appears to be disabled...">>)>>

(***************************************************************************)
(* C12                                                                     *)
(***************************************************************************)
\* C12: supports_auth_restart returns True iff fdesetup supportsauthrestart
\* exits zero with "true" in its output.  A zero exit without "true" gives
\* False with the 'AuthRestart is not supported' warning; a non-zero exit
\* gives False with the output as the warning if there is any, else the
\* generic 'problem determining AuthRestart status' warning.
C12_CapabilityProbe ==
    /\ \A i \in Invoked(support_cmd) :
        procs[i].state = "exited" =>
            RetVals("supports_auth_restart") =
                {PyBool(procs[i].exit = 0 /\ InStr(<<"true">>, procs[i].out))}
    /\ (entry = "supports_auth_restart" /\ status = "returned") =>
        /\ Len(procs) = 1
        /\ ret = PyTrue <=> (procs[1].exit = 0 /\ InStr(<<"true">>, procs[1].out))
        /\ ret \in {PyTrue, PyFalse}
        /\ ret = PyTrue => Diagnostics = <<>>
        /\ (procs[1].exit = 0 /\ ret = PyFalse) =>
            Diagnostics = <<Msg("warning", <<"FileVault AuthRestart is not supported...">>)>>
        /\ (procs[1].exit # 0 /\ procs[1].out # <<>>) =>
            Diagnostics = <<Msg("warning", procs[1].out)>>
        /\ (procs[1].exit # 0 /\ procs[1].out = <<>>) =>
            Diagnostics = <<Msg("warning",
                <<"Encountered problem determining AuthRestart status...">>)>>

\* the query failed with output: that output is the warning
C12_Witness ==
    /\ entry = "supports_auth_restart"
    /\ status = "returned"
    /\ ret = PyFalse
    /\ procs[1].exit = 1
    /\ Diagnostics = <<Msg("warning", <<"fdesetup", ":", "failed">>)>>

(***************************************************************************)
(* C13                                                                     *)
(***************************************************************************)
\* fn has been entered during the current call
Called(fn) == \E i \in DOMAIN trace : trace[i] = fn

\* the three tests of lines 153-155, as the claims state them
ConfiguredForAuthRestart ==
    /\ Truthy(prefs.PerformAuthRestarts)
    /\ Truthy(prefs.RecoveryKeyFile)
    /\ TupleGE(osVersion, <<10, 8>>)

\* C13: do_authorized_or_normal_restart calls perform_auth_restart iff
\* PerformAuthRestarts and RecoveryKeyFile are set, the OS is >= 10.8 and
\* filevault_is_active() returned True; the capability probe is not run
\* before perform_auth_restart is entered.
C13_DecidingToAttempting ==
    InFlow =>
        /\ Called("perform_auth_restart") =>
            (ConfiguredForAuthRestart /\ RetVals("filevault_is_active") = {PyTrue})
        /\ (/\ ConfiguredForAuthRestart
            /\ RetVals("filevault_is_active") = {PyTrue}
            /\ ~At("do_authorized_or_normal_restart", "after_filevault"))
            => Called("perform_auth_restart")
        /\ \E n \in 1..5 :
            trace = SubSeq(<<"do_authorized_or_normal_restart", "filevault_is_active",
                             "perform_auth_restart", "supports_auth_restart",
                             "get_auth_restart_key">>, 1, n)
        /\ ~Called("perform_auth_restart") => Invoked(support_cmd) = {}

\* Attempting was entered and only there the capability probe said no
C13_Witness ==
    /\ InFlow
    /\ status = "returned"
    /\ Called("perform_auth_restart")
    /\ RetVals("supports_auth_restart") = {PyFalse}
    /\ RetVals("perform_auth_restart") = {PyFalse}

(***************************************************************************)
(* C14                                                                     *)
(***************************************************************************)
\* the eligibility check of Deciding came out false
DecidingFalse ==
    \/ ~ConfiguredForAuthRestart
    \/ PyFalse \in RetVals("filevault_is_active")

FailedWarning ==
    Msg("warning", <<"Authorized Restart failed. Performing normal restart...">>)

\* C14: shutdown -r now is invoked iff Deciding came out false or
\* perform_auth_restart returned False; never after it returned True; and
\* after a False the 'Authorized Restart failed' warning is logged first.
C14_PlainRestart ==
    InFlow =>
        /\ Invoked(shutdown_cmd) # {} =>
            (DecidingFalse \/ PyFalse \in RetVals("perform_auth_restart"))
        /\ PyTrue \in RetVals("perform_auth_restart") => Invoked(shutdown_cmd) = {}
        /\ (Finished /\ (DecidingFalse \/ PyFalse \in RetVals("perform_auth_restart")))
            => Invoked(shutdown_cmd) # {}
        /\ (Invoked(shutdown_cmd) # {} /\ PyFalse \in RetVals("perform_auth_restart")) =>
            /\ Len(log) >= 2
            /\ log[Len(log) - 1] = FailedWarning
            /\ log[Len(log)] = Msg("debug1", <<"Performing a regular restart...">>)
        /\ DecidingFalse => \A i \in DOMAIN log : log[i] # FailedWarning

\* the executor failed, the warning was shown, the plain restart ran
C14_Witness ==
    /\ InFlow
    /\ status = "returned"
    /\ PyFalse \in RetVals("perform_auth_restart")
    /\ Spawned(shutdown_cmd) # {}
    /\ log[Len(log) - 1] = FailedWarning

(***************************************************************************)
(* C17                                                                     *)
(***************************************************************************)
\* the argument vectors of the invocations so far, in order
Argvs == [i \in DOMAIN procs |-> procs[i].argv]

\* C17: within one call of do_authorized_or_normal_restart the processes
\* come in the order isactive, supportsauthrestart, authrestart, shutdown,
\* each at most once and only after the one before has exited;
\* supportsauthrestart only after isactive reported true, authrestart only
\* after supportsauthrestart reported true and a non-empty credential was
\* read.
C17_SequentialSpawns ==
    InFlow =>
        /\ Argvs \in { <<>>, <<shutdown_cmd>>, <<active_cmd>>,
                       <<active_cmd, shutdown_cmd>>,
                       <<active_cmd, support_cmd>>,
                       <<active_cmd, support_cmd, shutdown_cmd>>,
                       <<active_cmd, support_cmd, authrestart_cmd>>,
                       <<active_cmd, support_cmd, authrestart_cmd, shutdown_cmd>> }
        /\ \A i \in 1..(Len(procs) - 1) : procs[i].state = "exited"
        /\ \A i \in Invoked(support_cmd) :
            /\ i = 2
            /\ procs[1].exit = 0 /\ InStr(<<"true">>, procs[1].out)
        /\ \A i \in Invoked(authrestart_cmd) :
            /\ i = 3
            /\ procs[2].exit = 0 /\ InStr(<<"true">>, procs[2].out)
            /\ keyReads = 1
            /\ \E k \in RetVals("get_auth_restart_key") : StrOf(k) # <<>>

\* all four processes ran, one after the other
C17_Witness ==
    /\ InFlow
    /\ status = "returned"
    /\ Len(procs) = 4
    /\ \A i \in 1..4 : procs[i].state = "exited"

(***************************************************************************)
(* C18                                                                     *)
(***************************************************************************)
\* C18: with PerformAuthRestarts unset, RecoveryKeyFile unset or an OS below
\* 10.8, do_authorized_or_normal_restart runs no fdesetup process and does
\* not read the credential file: its one external action is shutdown -r now.
C18_NotConfiguredOnlyRestarts ==
    (InFlow /\ ~ConfiguredForAuthRestart) =>
        /\ \A i \in DOMAIN procs : procs[i].argv = shutdown_cmd
        /\ Len(procs) <= 1
        /\ keyReads = 0
        /\ trace = <<"do_authorized_or_normal_restart">>
        /\ Finished => Len(procs) = 1

\* old OS, everything else configured: only the plain restart ran
C18_Witness ==
    /\ InFlow
    /\ status = "returned"
    /\ osVersion = <<10, 7, 5>>
    /\ prefs.PerformAuthRestarts = PyTrue
    /\ prefs.RecoveryKeyFile # PyNone
    /\ Argvs = <<shutdown_cmd>>

(***************************************************************************)
(* The flow next to a variant of it, in an unchanging environment          *)
(***************************************************************************)
\* the variant C15 and C16 speak of: do_authorized_or_normal_restart with
\* can_attempt_auth_restart() as its Deciding check
gated_start ==
    /\ At("do_authorized_or_normal_restart", "start")
    /\ log' = Append(log, Msg("info", <<"Restarting now.">>))
    /\ CallFrom("after_gate", "can_attempt_auth_restart")
    /\ UNCHANGED <<envVars, entry, procs, keyReads, recovery_key, calls>>

gated_after_gate ==
    /\ At("do_authorized_or_normal_restart", "after_gate")
    /\ IF Truthy(ret)
       THEN /\ log' = Append(log, Msg("debug1", <<"Configured to perform AuthRestarts...">>))
            /\ CallFrom("after_perform", "perform_auth_restart")
       ELSE /\ log' = log
            /\ Goto("fallback")
    /\ UNCHANGED <<envVars, entry, procs, keyReads, recovery_key, calls>>

\* answers of an fdesetup query that runs and says the same every time
StableQueryOutcomes ==
    [spawned : {TRUE}, exit : {0, 1}, out : {<<>>, <<"true", "\n">>, <<"false", "\n">>}]

\* policy, OS version, credential file and probe answers are fixed for the
\* whole session
InitStable ==
    /\ InitCall
    /\ answers \in {[fv |-> {a}, sup |-> {b}] :
                        a \in StableQueryOutcomes, b \in StableQueryOutcomes}

NextStable ==
    \/ Call("do_authorized_or_normal_restart")
    \/ gated_start
    \/ gated_after_gate
    \/ filevault_is_active
    \/ supports_auth_restart
    \/ get_auth_restart_key
    \/ can_attempt_start
    \/ can_attempt_after_filevault
    \/ can_attempt_after_supports
    \/ can_attempt_after_key
    \/ perform_start
    \/ perform_after_supports
    \/ perform_after_key
    \/ perform_communicate
    \/ restart_start
    \/ restart_after_filevault
    \/ restart_after_perform
    \/ restart_fallback

\* the flow and its variant, called in an unchanging environment
SpecStable == InitStable /\ [][NextStable]_vars

\* the query answers "true" with exit status 0, every time
SaysTrue(outcomes) ==
    \A o \in outcomes : o.spawned /\ o.exit = 0 /\ InStr(<<"true">>, o.out)

\* the five conditions of can_attempt_auth_restart, as the environment has them
EnvFive ==
    /\ TupleGE(osVersion, <<10, 8>>)
    /\ Truthy(prefs.PerformAuthRestarts)
    /\ SaysTrue(answers.fv)
    /\ SaysTrue(answers.sup)
    /\ Truthy(prefs.RecoveryKeyFile)
    /\ keyDoc.kind = "haskey"
    /\ Strip(keyDoc.key) # <<>>

\* the run is the variant's
IsVariant == Called("can_attempt_auth_restart")

(***************************************************************************)
(* C15                                                                     *)
(***************************************************************************)
\* the environment C15 names: configured, OS >= 10.8, FileVault active,
\* capability probe false
C15_Environment ==
    /\ ConfiguredForAuthRestart
    /\ SaysTrue(answers.fv)
    /\ ~SaysTrue(answers.sup)

\* C15: in that environment can_attempt_auth_restart returns False (the
\* variant goes straight to the plain restart with the probe's one warning),
\* while do_authorized_or_normal_restart enters perform_auth_restart, which
\* fails and adds its two warnings; with all five conditions true the
\* variant also runs the capability probe twice, the flow once.
C15_NotInterchangeable ==
    (InFlow /\ status = "returned") =>
        /\ C15_Environment =>
            /\ Argvs = <<active_cmd, support_cmd, shutdown_cmd>>
            /\ IF IsVariant
               THEN /\ RetVals("can_attempt_auth_restart") = {PyFalse}
                    /\ ~Called("perform_auth_restart")
                    /\ Len(Diagnostics) = 1
               ELSE /\ Called("perform_auth_restart")
                    /\ RetVals("perform_auth_restart") = {PyFalse}
                    /\ Len(Diagnostics) = 3
                    /\ Diagnostics[2] = Msg("warning",
                            <<"Machine doesn't support Authorized Restarts...">>)
                    /\ Diagnostics[3] = FailedWarning
        /\ EnvFive =>
            Cardinality(Invoked(support_cmd)) = IF IsVariant THEN 2 ELSE 1

\* the flow attempted the authorized restart where the gate would say no
C15_Witness ==
    /\ InFlow
    /\ status = "returned"
    /\ C15_Environment
    /\ ~IsVariant
    /\ Called("perform_auth_restart")
    /\ Len(Diagnostics) = 3

(***************************************************************************)
(* C16                                                                     *)
(***************************************************************************)
\* C16: in an unchanging environment the flow and the variant invoke the
\* same restart mechanisms: fdesetup authrestart iff all five gate
\* conditions hold, shutdown -r now iff they do not all hold or the helper's
\* stderr was classified as a failure; and the flow itself never enters
\* can_attempt_auth_restart.
C16_SameMechanisms ==
    InFlow =>
        /\ Invoked(authrestart_cmd) # {} => EnvFive
        /\ (Finished /\ EnvFive) => Invoked(authrestart_cmd) # {}
        /\ status = "returned" =>
            (Invoked(shutdown_cmd) # {} <=>
                \/ ~EnvFive
                \/ \E i \in Spawned(authrestart_cmd) :
                        ~StderrMeansRestart(osVersion, procs[i].out))
        /\ IsVariant => (Len(trace) >= 2 /\ trace[2] = "can_attempt_auth_restart")

\* the flow, without the gate, spawned the helper with all five conditions true
C16_Witness ==
    /\ InFlow
    /\ status = "returned"
    /\ ~IsVariant
    /\ EnvFive
    /\ Spawned(authrestart_cmd) # {}
    /\ Invoked(shutdown_cmd) = {}

====
